---- MODULE Spec2Model ----
(***************************************************************************)
(* State machine of the chat component of src/src/App.tsx: the React state *)
(* (messages, conversations, currentConversationId, isStreaming), the      *)
(* localStorage keys "conversations" and "currentConversationId", and the  *)
(* asynchronous exchanges started by handleSubmit.                         *)
(*                                                                         *)
(* React semantics the model relies on:                                    *)
(*  - the state updates queued by one synchronous stretch of a handler are *)
(*    applied in order, as one step (one action of the model);             *)
(*  - a handler reads the state variables of the render it was created in: *)
(*    an exchange keeps the currentConversationId of the render in which   *)
(*    handleSubmit was called (field cid of the exchange), and every       *)
(*    updateCurrentConversation it calls tests and uses that value;        *)
(*  - functional updates (setMessages(prev => ...)) read the latest state; *)
(*  - the save effects run at the end of the step whose state they follow. *)
(***************************************************************************)
EXTENDS Integers, Sequences, FiniteSets, TLC

VARIABLES
    messages,                \* App.tsx:20   visible message list
    isStreaming,             \* App.tsx:25
    conversations,           \* App.tsx:27
    currentConversationId,   \* App.tsx:28   NULL when no conversation is active
    lsConversations,         \* localStorage key "conversations"
    lsCurrentId,             \* localStorage key "currentConversationId"
    now,                     \* the last value the clock returned (ms)
    exchanges,               \* the calls of handleSubmit, in submission order
    reloads                  \* number of page loads after the first

vars == <<messages, isStreaming, conversations, currentConversationId,
          lsConversations, lsCurrentId, now, exchanges, reloads>>

----------------------------------------------------------------------------
(* Bounds of the model *)

MaxTime == 2
MaxSubmits == 2
MaxConvs == 2
MaxChunks == 2
MaxReloads == 1

----------------------------------------------------------------------------
(* Values *)

NULL == "<null>"

\* JavaScript truthiness of a string | null
Truthy(v) == v # NULL /\ v # ""

PlaceholderTitle == "New Conversation"

TitleLimit == 30

MODEL_NAME == "gemma-3-12b"

API_BASE_URL == "http://192.168.1.174:1234/v1"

Digits == <<"0", "1", "2", "3", "4", "5", "6", "7", "8", "9">>

\* Number.prototype.toString(): decimal digits, no padding
RECURSIVE DecimalString(_)
DecimalString(n) ==
    IF n < 10 THEN Digits[n + 1]
    ELSE DecimalString(n \div 10) \o Digits[(n % 10) + 1]

DigitValue(c) == CHOOSE d \in 0..9 : Digits[d + 1] = c

WhiteSpace == {" ", "\t", "\n", "\r"}

RECURSIVE TrimStart(_)
TrimStart(s) ==
    IF s = "" THEN s
    ELSE IF Head(s) \in WhiteSpace THEN TrimStart(Tail(s)) ELSE s

RECURSIVE TrimEnd(_)
TrimEnd(s) ==
    IF s = "" THEN s
    ELSE IF SubSeq(s, Len(s), Len(s)) \in WhiteSpace
         THEN TrimEnd(SubSeq(s, 1, Len(s) - 1))
         ELSE s

\* String.prototype.trim()
Trim(s) == TrimEnd(TrimStart(s))

Message(text, sender, imageUrl) ==
    [text |-> text, sender |-> sender, imageUrl |-> imageUrl]

streamingPlaceholder == Message("", "llm", NULL)

----------------------------------------------------------------------------
(* Inputs *)

Text30 == "123456789012345678901234567890"

Text31 == Text30 \o "1"

Text40 == Text30 \o "1234567890"

ImageUrl == "blob:preview"

\* <<inputText, imagePreviewUrl>> at the time of a submission: what the user
\* submits in a chat session, ...
ChatInputs == { <<"Hi", NULL>>, <<" ", NULL>>, <<"", ImageUrl>> }

\* ... first messages chosen for the title they give, ...
TitleInputs ==
    { <<"Hi", NULL>>, <<PlaceholderTitle, NULL>>, <<Text30, NULL>>,
      <<Text31, NULL>>, <<Text40, ImageUrl>> }

\* ... and in sessions that are closed and opened again
PersistInputs == { <<"Hi", NULL>> }

\* ... and the combinations of text, padded text and image a request is built from
RequestInputs ==
    { <<"Hi", NULL>>, <<" Hi ", NULL>>, <<"Hi", ImageUrl>>, <<" ", ImageUrl>>,
      <<"", ImageUrl>> }

AllInputs == ChatInputs \cup TitleInputs \cup PersistInputs \cup RequestInputs

\* App.tsx:145-146, 178-179, 812-813: selectedImage (the data URL of the file) is
\* set and cleared together with imagePreviewUrl
DataUrl == "data:image/png;base64,AAAA"

selectedImageOf(imagePreviewUrl) ==
    IF Truthy(imagePreviewUrl) THEN DataUrl ELSE NULL

DataLine(delta) == [prefix |-> TRUE, kind |-> "json", delta |-> delta]

DoneLine == [prefix |-> TRUE, kind |-> "done", delta |-> ""]

BadLine == [prefix |-> TRUE, kind |-> "garbage", delta |-> ""]

\* A data line cut by the end of a chunk: its first piece starts with "data: "
\* and JSON.parse rejects what follows; delta is what the whole frame carries
FrameHead(delta) == [prefix |-> TRUE, kind |-> "head", delta |-> delta]

\* ... and its last piece, the first line of the next chunk, has no "data: "
FrameTail == [prefix |-> FALSE, kind |-> "tail", delta |-> ""]

\* The decoded network chunks a read can return, as the lines of chunk.split("\n")
Chunks == { <<DataLine("a")>>, <<DoneLine>>, <<BadLine>> }

\* error.message of the TypeError a failed fetch or read rejects with
NetworkErrorText == "network error"

\* <<response.status, errorData.error>> of a non-ok response
HttpErrors == { <<500, "model not loaded">> }

\* Chunks of a response whose frames arrive several to a chunk, after a line
\* that does not parse, and cut in two by the chunk boundary
FrameChunks ==
    { <<DataLine("a")>>, <<BadLine, DataLine("b")>>, <<DataLine("a"), FrameHead("b")>>,
      <<FrameTail, DataLine("a")>>, <<FrameTail>>, <<DoneLine>>,
      <<DoneLine, DataLine("a")>> }

\* The chunk holds the line "data: [DONE]"
DoneSeen(chunk) ==
    \E i \in 1..Len(chunk) : chunk[i].prefix /\ chunk[i].kind = "done"

----------------------------------------------------------------------------
(* Conversation model *)

\* A derivation that also cuts a text of exactly 30 characters
generateConversationTitleCutAt30(firstMessage) ==
    IF Len(firstMessage) >= TitleLimit
    THEN SubSeq(firstMessage, 1, TitleLimit) \o "..."
    ELSE firstMessage

\* App.tsx:424-428
generateConversationTitle(firstMessage) ==
    IF Len(firstMessage) > TitleLimit
    THEN SubSeq(firstMessage, 1, TitleLimit) \o "..."
    ELSE firstMessage

\* App.tsx:431-438, the clock read once as t
newConversation(t) ==
    [id |-> DecimalString(t), title |-> PlaceholderTitle, messages |-> <<>>,
     createdAt |-> t, updatedAt |-> t]

\* An update that does not compare the ids
updateEveryConversation(convs, cid, newMessages, t) ==
    IF Truthy(cid)
    THEN [i \in 1..Len(convs) |->
            [convs[i] EXCEPT
                !.messages = newMessages,
                !.title = IF Len(newMessages) > 0 /\ @ = PlaceholderTitle
                          THEN generateConversationTitle(newMessages[1].text)
                          ELSE @,
                !.updatedAt = t]]
    ELSE convs

\* App.tsx:454-472: the conversation list after updateCurrentConversation(newMessages)
\* called by a handler whose render had currentConversationId = cid
updateCurrentConversation(convs, cid, newMessages, t) ==
    IF Truthy(cid)
    THEN [i \in 1..Len(convs) |->
            IF convs[i].id = cid
            THEN [convs[i] EXCEPT
                    !.messages = newMessages,
                    !.title = IF Len(newMessages) > 0 /\ @ = PlaceholderTitle
                              THEN generateConversationTitle(newMessages[1].text)
                              ELSE @,
                    !.updatedAt = t]
            ELSE convs[i]]
    ELSE convs

\* Array.prototype.find: the index of the first conversation with this id, 0 if none
FindConversation(convs, id) ==
    LET S == {i \in 1..Len(convs) : convs[i].id = id}
    IN IF S = {} THEN 0 ELSE CHOOSE i \in S : \A j \in S : i <= j

\* Array.prototype.filter of deleteConversation, App.tsx:475
RECURSIVE FilterOut(_, _)
FilterOut(convs, id) ==
    IF convs = <<>> THEN <<>>
    ELSE IF Head(convs).id = id THEN FilterOut(Tail(convs), id)
         ELSE <<Head(convs)>> \o FilterOut(Tail(convs), id)

ConversationIds == {conversations[i].id : i \in 1..Len(conversations)}

----------------------------------------------------------------------------
(* Persistence *)

Pad3(n) == Digits[(n \div 100) + 1] \o Digits[((n \div 10) % 10) + 1] \o Digits[(n % 10) + 1]

\* Date.prototype.toISOString (what JSON.stringify writes for a Date), for the
\* first second of the epoch
toISOString(t) == "1970-01-01T00:00:00." \o Pad3(t) \o "Z"

\* A revival that lands one millisecond late
parseDateOneLate(s) ==
    100 * DigitValue(SubSeq(s, 21, 21)) + 10 * DigitValue(SubSeq(s, 22, 22))
        + DigitValue(SubSeq(s, 23, 23)) + 1

\* new Date(isoString), in ms
parseDate(s) ==
    100 * DigitValue(SubSeq(s, 21, 21)) + 10 * DigitValue(SubSeq(s, 22, 22))
        + DigitValue(SubSeq(s, 23, 23))

Absent == [kind |-> "absent", value |-> <<>>]

Corrupt == [kind |-> "corrupt", value |-> <<>>]

\* JSON.stringify(conversations), App.tsx:107
JSONstringify(convs) ==
    [kind |-> "json",
     value |-> [i \in 1..Len(convs) |->
                  [convs[i] EXCEPT !.createdAt = toISOString(@),
                                   !.updatedAt = toISOString(@)]]]

\* App.tsx:69-82: the conversation list the load effect sets
loadConversations(saved) ==
    IF saved.kind = "json"
    THEN [i \in 1..Len(saved.value) |->
            [saved.value[i] EXCEPT !.createdAt = parseDate(@),
                                   !.updatedAt = parseDate(@)]]
    ELSE <<>>

\* App.tsx:84-85
loadCurrentId(savedId) == IF Truthy(savedId) THEN savedId ELSE NULL

\* App.tsx:84-101
loadMessages(saved, savedId) ==
    IF Truthy(savedId) /\ saved.kind = "json"
       /\ FindConversation(saved.value, savedId) # 0
    THEN saved.value[FindConversation(saved.value, savedId)].messages
    ELSE <<>>

\* App.tsx:105-109
saveConversations(stored, convs) ==
    IF Len(convs) > 0 THEN JSONstringify(convs) ELSE stored

\* A save that writes an empty value instead of removing the key
saveCurrentIdEmptyValue(cid) == IF Truthy(cid) THEN cid ELSE ""

\* App.tsx:112-118
saveCurrentId(cid) == IF Truthy(cid) THEN cid ELSE NULL

\* The two save effects after a step; setConvs: setConversations was called
SaveEffects(setConvs) ==
    /\ lsConversations' = IF setConvs
                          THEN saveConversations(lsConversations, conversations')
                          ELSE lsConversations
    /\ lsCurrentId' = IF currentConversationId' # currentConversationId
                      THEN saveCurrentId(currentConversationId')
                      ELSE lsCurrentId

----------------------------------------------------------------------------
(* Chat controller: handleSubmit and the exchange it starts *)

\* The content of a request message: a string, or a list of parts
PlainContent(text) == [plain |-> TRUE, text |-> text, parts |-> <<>>]

PartsContent(parts) == [plain |-> FALSE, text |-> "", parts |-> parts]

TextPart(text) == [type |-> "text", value |-> text]

ImagePart(url) == [type |-> "image_url", value |-> url]

\* No request in flight
NoContent == PlainContent("")

\* A shaping that drops the text when an image is selected
currentMessageContentImageOnly(currentInputText, currentSelectedImage) ==
    IF Truthy(currentSelectedImage)
    THEN PartsContent(<<ImagePart(currentSelectedImage)>>)
    ELSE PlainContent(Trim(currentInputText))

\* App.tsx:194-220
currentMessageContent(currentInputText, currentSelectedImage) ==
    IF Truthy(currentSelectedImage) /\ Trim(currentInputText) # ""
    THEN PartsContent(<<TextPart(Trim(currentInputText)),
                        ImagePart(currentSelectedImage)>>)
    ELSE IF Truthy(currentSelectedImage)
    THEN PartsContent(<<ImagePart(currentSelectedImage)>>)
    ELSE PlainContent(Trim(currentInputText))

\* One call of handleSubmit.  cid is the currentConversationId of the render the
\* handler was created in; timer: the setTimeout of line 171 is pending, and
\* newMessages is the list it was given; acc is accumulatedText; nread counts the
\* chunks read.  The locals of a call that has returned are not kept.  newId is
\* history: what createNewConversation() returned at line 169 (the handler drops
\* it), NULL when it was not called; no action reads it.  partial is the network's:
\* the delta of the frame whose first piece ended the last chunk, "" when the last
\* chunk ended with a whole line.  content is the content of the new user turn
\* of the request, while the request is in flight.  done is the network's too:
\* the response has delivered its "data: [DONE]" line.
Exchange(cid, newMessages, newId, content) ==
    [cid |-> cid, pc |-> "fetch", acc |-> "", nread |-> 0, partial |-> "",
     content |-> content, done |-> FALSE,
     timer |-> ~Truthy(cid),
     newMessages |-> IF Truthy(cid) THEN <<>> ELSE newMessages,
     newId |-> newId]

Ended(ex) ==
    [ex EXCEPT !.pc = "ended", !.acc = "", !.nread = 0, !.partial = "",
               !.content = NoContent, !.done = FALSE]

Awaiting(e, pc) == e \in 1..Len(exchanges) /\ exchanges[e].pc = pc

\* App.tsx:320-323
errorMessage(msg) ==
    Message("Error: " \o msg \o ". Please ensure LM Studio is running with "
              \o MODEL_NAME \o " model loaded at " \o API_BASE_URL
              \o "/chat/completions.", "llm", NULL)

\* App.tsx:326-337: the updater of setMessages in the catch block
appendError(prevMessages, err) ==
    IF Len(prevMessages) > 0 /\ prevMessages[Len(prevMessages)].text = ""
    THEN [prevMessages EXCEPT ![Len(prevMessages)] = err]
    ELSE Append(prevMessages, err)

\* App.tsx:270-283: processChunk(text) on the latest messages and conversations
processChunk(prevMessages, convs, cid, text, t) ==
    IF Len(prevMessages) > 0
    THEN LET updatedMessages ==
                 [prevMessages EXCEPT ![Len(prevMessages)].text = text]
         IN [messages |-> updatedMessages,
             conversations |-> updateCurrentConversation(convs, cid, updatedMessages, t),
             setConvs |-> Truthy(cid)]
    ELSE [messages |-> prevMessages, conversations |-> convs, setConvs |-> FALSE]

\* App.tsx:292-311: the for loop over the lines of one chunk.  st holds
\* accumulatedText, the state as queued so far, whether setConversations was
\* called, and the snapshots given to processChunk.
RECURSIVE readLines(_, _, _, _)
readLines(lines, st, cid, t) ==
    IF lines = <<>> THEN st
    ELSE LET line == Head(lines) IN
         IF ~line.prefix THEN readLines(Tail(lines), st, cid, t)
         ELSE IF line.kind = "done" THEN [st EXCEPT !.isStreaming = FALSE]
         ELSE IF line.kind = "json" /\ line.delta # ""
         THEN LET acc == st.acc \o line.delta
                  r == processChunk(st.messages, st.conversations, cid, acc, t)
              IN readLines(Tail(lines),
                           [st EXCEPT !.acc = acc,
                                      !.messages = r.messages,
                                      !.conversations = r.conversations,
                                      !.setConvs = @ \/ r.setConvs,
                                      !.snapshots = Append(@, acc)],
                           cid, t)
         ELSE readLines(Tail(lines), st, cid, t)

\* The state one read of exchange e with this chunk leaves, the clock read as t
AfterChunk(e, chunk, t) ==
    readLines(chunk,
              [acc |-> exchanges[e].acc, messages |-> messages,
               conversations |-> conversations, isStreaming |-> isStreaming,
               setConvs |-> FALSE, snapshots |-> <<>>],
              exchanges[e].cid, t)

\* App.tsx:153-253: handleSubmit up to the await of fetch
handleSubmit(inputText, imagePreviewUrl) ==
    /\ ~isStreaming
    /\ ~(Trim(inputText) = "" /\ ~Truthy(imagePreviewUrl))
    /\ Len(exchanges) < MaxSubmits
    /\ LET userMessage == Message(inputText, "user", imagePreviewUrl)
           newMessages == Append(messages, userMessage)
           create == ~Truthy(currentConversationId)
       IN /\ create => Len(conversations) < MaxConvs
          /\ \E t \in now..MaxTime :
               /\ now' = t
               /\ conversations' =
                    IF create
                    THEN <<newConversation(t)>> \o conversations
                    ELSE updateCurrentConversation(conversations,
                             currentConversationId, newMessages, t)
               /\ currentConversationId' =
                    IF create THEN newConversation(t).id ELSE currentConversationId
               \* setMessages(newMessages); setMessages([]) when a conversation
               \* is created; setMessages(prev => [...prev, placeholder])
               /\ messages' = Append(IF create THEN <<>> ELSE newMessages,
                                     streamingPlaceholder)
          /\ isStreaming' = TRUE
          /\ exchanges' = Append(exchanges,
                Exchange(currentConversationId, newMessages,
                         IF create THEN currentConversationId' ELSE NULL,
                         currentMessageContent(inputText,
                             selectedImageOf(imagePreviewUrl))))
          /\ SaveEffects(TRUE)
          /\ UNCHANGED reloads

\* App.tsx:171: the deferred updateCurrentConversation(newMessages)
deferredUpdate(e) ==
    /\ e \in 1..Len(exchanges)
    /\ exchanges[e].timer
    /\ \E t \in now..MaxTime :
         /\ ~Truthy(exchanges[e].cid) => t = now
         /\ now' = t
         /\ conversations' = updateCurrentConversation(conversations,
                                 exchanges[e].cid, exchanges[e].newMessages, t)
    /\ exchanges' = [exchanges EXCEPT ![e].timer = FALSE, ![e].newMessages = <<>>]
    /\ UNCHANGED <<messages, isStreaming, currentConversationId, reloads>>
    /\ SaveEffects(Truthy(exchanges[e].cid))

\* App.tsx:241-264: fetch resolves with response.ok
fetchOk(e) ==
    /\ Awaiting(e, "fetch")
    /\ exchanges' = [exchanges EXCEPT ![e].pc = "read", ![e].content = NoContent]
    /\ UNCHANGED <<messages, isStreaming, conversations, currentConversationId,
                   lsConversations, lsCurrentId, now, reloads>>

\* A catch block that leaves the streaming flag on
catchStillStreaming(e, msg) ==
    /\ messages' = appendError(messages, errorMessage(msg))
    /\ exchanges' = [exchanges EXCEPT ![e] = Ended(@)]
    /\ UNCHANGED <<isStreaming, conversations, currentConversationId,
                   lsConversations, lsCurrentId, now, reloads>>

\* App.tsx:316-338: the catch block
catch(e, msg) ==
    /\ isStreaming' = FALSE
    /\ messages' = appendError(messages, errorMessage(msg))
    /\ exchanges' = [exchanges EXCEPT ![e] = Ended(@)]
    /\ UNCHANGED <<conversations, currentConversationId, lsConversations,
                   lsCurrentId, now, reloads>>

\* App.tsx:259-261
httpErrorText(status, errorText) ==
    "HTTP error! Status: " \o DecimalString(status) \o ". " \o errorText

\* App.tsx:255-262: response.ok is false
fetchHttpError(e, status, errorText) ==
    /\ Awaiting(e, "fetch")
    /\ catch(e, httpErrorText(status, errorText))

\* App.tsx:241: fetch rejects
fetchNetworkError(e) ==
    /\ Awaiting(e, "fetch")
    /\ catch(e, NetworkErrorText)

\* App.tsx:286-311: reader.read() returns a chunk
readChunk(e, chunk) ==
    /\ Awaiting(e, "read")
    /\ exchanges[e].nread < MaxChunks
    \* the bytes after a cut line are the rest of that line
    /\ (exchanges[e].partial # "") <=> (chunk[1].kind = "tail")
    /\ UNCHANGED <<currentConversationId, reloads>>
    /\ \E t \in now..MaxTime :
         LET st == AfterChunk(e, chunk, t)
         IN /\ ~st.setConvs => t = now
            /\ now' = t
            /\ messages' = st.messages
            /\ conversations' = st.conversations
            /\ isStreaming' = st.isStreaming
            /\ exchanges' = [exchanges EXCEPT
                   ![e].acc = st.acc,
                   ![e].nread = @ + 1,
                   ![e].partial = IF chunk[Len(chunk)].kind = "head"
                                  THEN chunk[Len(chunk)].delta ELSE "",
                   ![e].done = @ \/ DoneSeen(chunk)]
            /\ SaveEffects(st.setConvs)

\* App.tsx:286-287, 315: reader.read() returns done
readDone(e) ==
    /\ Awaiting(e, "read")
    /\ isStreaming' = FALSE
    /\ exchanges' = [exchanges EXCEPT ![e] = Ended(@)]
    /\ UNCHANGED <<messages, conversations, currentConversationId,
                   lsConversations, lsCurrentId, now, reloads>>

\* App.tsx:286: reader.read() rejects
readError(e) ==
    /\ Awaiting(e, "read")
    /\ catch(e, NetworkErrorText)

----------------------------------------------------------------------------
(* Sidebar: new chat, select, delete *)

\* A creation that puts the new conversation at the end of the list
createNewConversationAtEnd ==
    /\ Len(conversations) < MaxConvs
    /\ \E t \in now..MaxTime :
         /\ now' = t
         /\ conversations' = conversations \o <<newConversation(t)>>
         /\ currentConversationId' = newConversation(t).id
    /\ messages' = <<>>
    /\ SaveEffects(TRUE)
    /\ UNCHANGED <<isStreaming, exchanges, reloads>>

\* App.tsx:430-443, from the New Chat button (line 562)
createNewConversation ==
    /\ Len(conversations) < MaxConvs
    /\ \E t \in now..MaxTime :
         /\ now' = t
         /\ conversations' = <<newConversation(t)>> \o conversations
         /\ currentConversationId' = newConversation(t).id
    /\ messages' = <<>>
    /\ SaveEffects(TRUE)
    /\ UNCHANGED <<isStreaming, exchanges, reloads>>

\* A selection that does not look the conversation up
selectConversationUnchecked(conversationId) ==
    /\ currentConversationId' = conversationId
    /\ messages' = IF FindConversation(conversations, conversationId) # 0
                   THEN conversations[
                            FindConversation(conversations, conversationId)].messages
                   ELSE messages
    /\ UNCHANGED <<isStreaming, conversations, now, exchanges, reloads>>
    /\ SaveEffects(FALSE)

\* App.tsx:445-452
selectConversation(conversationId) ==
    /\ IF FindConversation(conversations, conversationId) # 0
       THEN /\ currentConversationId' = conversationId
            /\ messages' = conversations[
                   FindConversation(conversations, conversationId)].messages
       ELSE UNCHANGED <<currentConversationId, messages>>
    /\ UNCHANGED <<isStreaming, conversations, now, exchanges, reloads>>
    /\ SaveEffects(FALSE)

\* A delete that leaves the visible list of the deleted active conversation
deleteConversationKeepVisible(conversationId) ==
    /\ conversations' = FilterOut(conversations, conversationId)
    /\ IF currentConversationId = conversationId
       THEN /\ currentConversationId' = NULL
            /\ messages' = messages
       ELSE UNCHANGED <<currentConversationId, messages>>
    /\ SaveEffects(TRUE)
    /\ UNCHANGED <<isStreaming, now, exchanges, reloads>>

\* App.tsx:474-480
deleteConversation(conversationId) ==
    /\ conversations' = FilterOut(conversations, conversationId)
    /\ IF currentConversationId = conversationId
       THEN /\ currentConversationId' = NULL
            /\ messages' = <<>>
       ELSE UNCHANGED <<currentConversationId, messages>>
    /\ SaveEffects(TRUE)
    /\ UNCHANGED <<isStreaming, now, exchanges, reloads>>

----------------------------------------------------------------------------
(* Page load *)

\* App.tsx:65-118: a new page: the load effect on what storage holds, then the
\* save effects; the exchanges of the old page are gone
PageLoad(saved, savedId) ==
    /\ reloads < MaxReloads
    /\ reloads' = reloads + 1
    /\ conversations' = loadConversations(saved)
    /\ currentConversationId' = loadCurrentId(savedId)
    /\ messages' = loadMessages(saved, savedId)
    /\ isStreaming' = FALSE
    /\ exchanges' = [e \in 1..Len(exchanges) |->
                       [Ended(exchanges[e]) EXCEPT !.timer = FALSE,
                                                   !.newMessages = <<>>]]
    /\ lsConversations' = saveConversations(saved, conversations')
    /\ lsCurrentId' = saveCurrentId(currentConversationId')
    /\ UNCHANGED now

reload == PageLoad(lsConversations, lsCurrentId)

\* The page dies in deleteConversation's commit between the write of the list
\* (App.tsx:107) and the write of the id (App.tsx:114-116), and is opened again
crashBetweenWrites(conversationId) ==
    PageLoad(saveConversations(lsConversations,
                               FilterOut(conversations, conversationId)),
             lsCurrentId)

\* The "conversations" key is overwritten from outside with text JSON.parse rejects
corruptStorage ==
    /\ reloads < MaxReloads
    /\ lsConversations.kind = "json"
    /\ lsConversations' = Corrupt
    /\ UNCHANGED <<messages, isStreaming, conversations, currentConversationId,
                   lsCurrentId, now, exchanges, reloads>>

----------------------------------------------------------------------------
(* Specifications *)

Init ==
    /\ messages = <<>>
    /\ isStreaming = FALSE
    /\ conversations = <<>>
    /\ currentConversationId = NULL
    /\ lsConversations = Absent
    /\ lsCurrentId = NULL
    /\ now = 1
    /\ exchanges = <<>>
    /\ reloads = 0

Submit(Inputs) == \E in \in Inputs : handleSubmit(in[1], in[2])

DeferredUpdate == \E e \in 1..MaxSubmits : deferredUpdate(e)

FetchOk == \E e \in 1..MaxSubmits : fetchOk(e)

FetchHttpError ==
    \E e \in 1..MaxSubmits : \E err \in HttpErrors : fetchHttpError(e, err[1], err[2])

FetchNetworkError == \E e \in 1..MaxSubmits : fetchNetworkError(e)

ReadChunk == \E e \in 1..MaxSubmits : \E chunk \in Chunks : readChunk(e, chunk)

ReadFrames ==
    \E e \in 1..MaxSubmits : \E chunk \in FrameChunks : readChunk(e, chunk)

ReadDone == \E e \in 1..MaxSubmits : readDone(e)

ReadError == \E e \in 1..MaxSubmits : readError(e)

NewChat == createNewConversation

Select == \E id \in ConversationIds : selectConversation(id)

\* selectConversation called with any id the clock can have produced, in the
\* list or not (App.tsx:445: the parameter is any string)
SelectIds == {DecimalString(t) : t \in 0..MaxTime}

SelectAny == \E id \in SelectIds : selectConversation(id)

Delete == \E id \in ConversationIds : deleteConversation(id)

Reload == reload

Crash == \E id \in ConversationIds : crashBetweenWrites(id)

CorruptStorage == corruptStorage

\* One page session: the chat controller and the sidebar
Next ==
    \/ Submit(ChatInputs)
    \/ DeferredUpdate
    \/ FetchOk
    \/ FetchHttpError
    \/ FetchNetworkError
    \/ ReadChunk
    \/ ReadDone
    \/ ReadError
    \/ NewChat
    \/ Select
    \/ Delete

Spec == Init /\ [][Next]_vars

\* One page session in which the requests succeed, with first messages of every
\* length class
TitleNext ==
    \/ Submit(TitleInputs)
    \/ DeferredUpdate
    \/ FetchOk
    \/ ReadChunk
    \/ ReadDone
    \/ NewChat
    \/ Select

TitleSpec == Init /\ [][TitleNext]_vars

\* Sessions that end (closed, killed while saving) and are opened again
PersistNext ==
    \/ Submit(PersistInputs)
    \/ DeferredUpdate
    \/ FetchOk
    \/ ReadChunk
    \/ ReadDone
    \/ NewChat
    \/ Select
    \/ Delete
    \/ Reload
    \/ Crash
    \/ CorruptStorage

PersistSpec == Init /\ [][PersistNext]_vars

\* One page session with submissions of every combination of text and image
RequestNext ==
    \/ Submit(RequestInputs)
    \/ DeferredUpdate
    \/ FetchOk
    \/ FetchHttpError
    \/ ReadChunk
    \/ ReadDone
    \/ NewChat

RequestSpec == Init /\ [][RequestNext]_vars

\* One page session whose responses arrive in chunks of every shape
StreamNext ==
    \/ Submit(PersistInputs)
    \/ DeferredUpdate
    \/ FetchOk
    \/ ReadFrames
    \/ ReadDone
    \/ ReadError
    \/ NewChat
    \/ Select

StreamSpec == Init /\ [][StreamNext]_vars

\* One page session in which selectConversation is called with ids of the list
\* and with ids that are not in it
SelectNext ==
    \/ Submit(PersistInputs)
    \/ DeferredUpdate
    \/ FetchOk
    \/ ReadChunk
    \/ ReadDone
    \/ NewChat
    \/ SelectAny
    \/ Delete

SelectSpec == Init /\ [][SelectNext]_vars

\* One page session in which every request is answered or fails, and every
\* response stream ends or fails
LiveSpec ==
    /\ Init /\ [][Next]_vars
    /\ WF_vars(FetchOk \/ FetchHttpError \/ FetchNetworkError)
    /\ WF_vars(ReadDone \/ ReadError)

----------------------------------------------------------------------------
(* Claims *)

LastOf(seq) == seq[Len(seq)]

\* The message a submission of <<inputText, imagePreviewUrl>> adds
UserMessage(in) == Message(in[1], "user", in[2])

\* The conversation an exchange belongs to: the one that was active when it was
\* submitted, or the one the submission created
OwnConversation(ex) == IF Truthy(ex.cid) THEN ex.cid ELSE ex.newId

\* C1: a non-empty text message submitted while no conversation is active creates
\* exactly one conversation, and once the deferred update that follows the
\* creation has run, that conversation's stored list starts with the submitted
\* user message and its title is derived from that message's text.
C1_FirstMessageStored ==
    [][ /\ \A in \in AllInputs :
             (handleSubmit(in[1], in[2]) /\ ~Truthy(currentConversationId))
                 => Len(conversations') = Len(conversations) + 1
        /\ \A e \in 1..MaxSubmits :
             deferredUpdate(e) =>
                 LET ex == exchanges[e]
                     m == LastOf(ex.newMessages)
                     i == FindConversation(conversations', ex.newId)
                 IN (Len(ex.newMessages) = 1 /\ Trim(m.text) # "" /\ i # 0)
                        => /\ conversations'[i].messages # <<>>
                           /\ conversations'[i].messages[1] = m
                           /\ conversations'[i].title = generateConversationTitle(m.text)
      ]_vars

\* C2: after any accepted submission, with or without an active conversation,
\* the visible list is the list from before the submission, then the new user
\* message, then exactly one empty assistant placeholder.
C2_VisibleAfterSubmit ==
    [][ \A in \in AllInputs :
            handleSubmit(in[1], in[2])
                => messages' = messages \o <<UserMessage(in), streamingPlaceholder>>
      ]_vars

\* C3: for every sequence of cumulative snapshots of one exchange: a snapshot
\* never appends a message, after it is applied the visible assistant message
\* (the last one) carries it, and when the exchange finishes normally, no later
\* exchange having been submitted, the visible assistant message's text is the
\* last snapshot produced.
C3_FinalTextIsLastSnapshot ==
    [][ /\ \A e \in 1..MaxSubmits : \A chunk \in Chunks :
             (readChunk(e, chunk) /\ AfterChunk(e, chunk, now').snapshots # <<>>)
                 => /\ Len(messages') = Len(messages)
                    /\ messages' # <<>>
                    /\ LastOf(messages').sender = "llm"
                    /\ LastOf(messages').text
                         = LastOf(AfterChunk(e, chunk, now').snapshots)
        /\ \A e \in 1..MaxSubmits :
             (readDone(e) /\ exchanges[e].acc # "" /\ e = Len(exchanges))
                 => /\ messages' # <<>>
                    /\ LastOf(messages').sender = "llm"
                    /\ LastOf(messages').text = exchanges[e].acc
      ]_vars

\* C4: after each snapshot is applied, the stored list of the conversation the
\* exchange belongs to is the updated visible list, whose last message carries
\* the snapshot, whether the conversation existed before the submission or was
\* created by it.
C4_SnapshotStored ==
    [][ \A e \in 1..MaxSubmits : \A chunk \in Chunks :
            (readChunk(e, chunk) /\ AfterChunk(e, chunk, now').snapshots # <<>>)
                => LET i == FindConversation(conversations',
                                             OwnConversation(exchanges[e]))
                   IN i # 0 =>
                        /\ conversations'[i].messages = messages'
                        /\ messages' # <<>>
                        /\ LastOf(conversations'[i].messages).text
                             = LastOf(AfterChunk(e, chunk, now').snapshots)
      ]_vars

\* The interval between a submission and the creation of its conversation being
\* complete: the deferred update of a creating submission has not run yet
CreationPending == \E e \in 1..Len(exchanges) : exchanges[e].timer

\* C5: in every state with an active conversation, the visible list equals the
\* stored list of the active conversation, except between a submission and the
\* creation of its conversation.
C5_VisibleEqualsStored ==
    (Truthy(currentConversationId) /\ ~CreationPending)
        => \A i \in 1..Len(conversations) :
               i = FindConversation(conversations, currentConversationId)
                   => conversations[i].messages = messages

\* C6: in every state, also right after loading what a crash between the two
\* writes or an unparsable list left in storage, the active id is unset or the id
\* of a conversation in the list.
C6_ActiveIdExists ==
    Truthy(currentConversationId) => currentConversationId \in ConversationIds

\* C7: once a conversation has been updated with a non-empty list (every update
\* the program makes has one, so: once its stored list is non-empty), no later
\* update changes its title.
C7_TitleFrozen ==
    [][ \A i \in 1..Len(conversations) :
            ( /\ Len(conversations') = Len(conversations)
              /\ conversations'[i].id = conversations[i].id
              /\ conversations[i].messages # <<>> )
                => conversations'[i].title = conversations[i].title
      ]_vars

\* A conversation as createNewConversation leaves it
Fresh(conv) == conv.title = PlaceholderTitle /\ conv.messages = <<>>

\* C8: createConversation followed immediately by updateConversation(newId, [m])
\* gives a conversation with messages [m]; its title stays "New Conversation"
\* when m.text is empty, and is derived from m.text otherwise.
C8_CreateThenUpdate ==
    [][ \A in \in AllInputs :
            ( /\ handleSubmit(in[1], in[2])
              /\ Truthy(currentConversationId)
              /\ messages = <<>> )
                => \A i \in 1..Len(conversations) :
                       (conversations[i].id = currentConversationId
                        /\ Fresh(conversations[i]))
                           => /\ conversations'[i].messages = <<UserMessage(in)>>
                              /\ conversations'[i].title =
                                   IF in[1] = "" THEN PlaceholderTitle
                                   ELSE generateConversationTitle(in[1])
      ]_vars

\* The title the specification asks for, from the first message's text
ExpectedTitle(text) ==
    IF Len(text) <= 30 THEN text ELSE SubSeq(text, 1, 30) \o "..."

\* C9: whenever a step replaces the message list of a conversation whose title
\* is still the placeholder, the title it leaves is the first message's text
\* when that has at most 30 characters, and its first 30 characters followed by
\* "..." when it has more; no title is longer than 33 characters.
C9_TitleDerivation ==
    [][ \A i \in 1..Len(conversations) :
            ( /\ Len(conversations') = Len(conversations)
              /\ conversations'[i].id = conversations[i].id
              /\ conversations[i].title = PlaceholderTitle
              /\ conversations'[i].messages # conversations[i].messages )
                => /\ conversations'[i].title
                        = ExpectedTitle(conversations'[i].messages[1].text)
                   /\ Len(conversations'[i].title) <= 33
      ]_vars

\* A title cut to 30 characters and "..." and a title of exactly 30 characters
\* kept whole, side by side
C9_Witness ==
    /\ \E i \in 1..Len(conversations) :
         /\ conversations[i].messages # <<>>
         /\ Len(conversations[i].messages[1].text) > 30
         /\ conversations[i].title
              = SubSeq(conversations[i].messages[1].text, 1, 30) \o "..."
    /\ \E i \in 1..Len(conversations) :
         /\ conversations[i].messages # <<>>
         /\ Len(conversations[i].messages[1].text) = 30
         /\ conversations[i].title = conversations[i].messages[1].text

\* C10: deleteConversation(id) removes the conversations with that id and keeps
\* the others in order; if id was active the active id becomes unset and the
\* visible list empty, otherwise both are unchanged.
C10_DeleteEffect ==
    [][ \A id \in ConversationIds :
            deleteConversation(id)
                => /\ conversations' = SelectSeq(conversations, LAMBDA c : c.id # id)
                   /\ \A i \in 1..Len(conversations') : conversations'[i].id # id
                   /\ IF currentConversationId = id
                      THEN currentConversationId' = NULL /\ messages' = <<>>
                      ELSE /\ currentConversationId' = currentConversationId
                           /\ messages' = messages
      ]_vars

\* The active conversation was deleted while another one stays in the list: only
\* deleteConversation unsets the active id, and it leaves the list non-empty here
C10_Witness ==
    /\ currentConversationId = NULL
    /\ messages = <<>>
    /\ conversations # <<>>

\* C11: after every change of the in-memory conversation list, once the save has
\* run, the stored list is the in-memory list (what a reload reconstructs is what
\* existed), also after the last remaining conversation was deleted; storage
\* overwritten from outside is left aside.
C11_StoredListIsList ==
    lsConversations # Corrupt
        => loadConversations(lsConversations) = conversations

\* C12: a page load, the save that follows it and a load of what was saved
\* reproduce the session state of the first load: the same conversations (ids,
\* titles, message lists, order, createdAt and updatedAt) and the same active id.
C12_RoundTrip ==
    [][ (Reload \/ Crash)
            => /\ loadConversations(lsConversations') = conversations'
               /\ loadCurrentId(lsCurrentId') = currentConversationId'
      ]_vars

\* A reloaded session with an active conversation that holds messages and was
\* updated after it was created
C12_Witness ==
    /\ reloads > 0
    /\ lsConversations.kind = "json"
    /\ \E i \in 1..Len(conversations) :
         /\ conversations[i].id = currentConversationId
         /\ conversations[i].messages # <<>>
         /\ conversations[i].updatedAt # conversations[i].createdAt

\* C13: after every save the active-id key is in storage exactly when a
\* conversation is active, and then holds the active id; with no active
\* conversation the key is absent, never present with an empty value.
C13_ActiveIdKey ==
    /\ Truthy(currentConversationId) => lsCurrentId = currentConversationId
    /\ ~Truthy(currentConversationId) => lsCurrentId = NULL

\* The key was written when a conversation became active and has been removed
\* since: no conversation is active while storage still holds conversations
C13_Witness ==
    /\ ~Truthy(currentConversationId)
    /\ lsCurrentId = NULL
    /\ lsConversations.kind = "json"
    /\ lsConversations.value # <<>>

\* C14: when the stored conversation list cannot be deserialized, the load does
\* not fail and yields the empty session state: no conversations, no active
\* conversation id, an empty visible list.
C14_CorruptLoadsEmpty ==
    [][ (Reload /\ lsConversations = Corrupt)
            => /\ conversations' = <<>>
               /\ currentConversationId' = NULL
               /\ messages' = <<>>
      ]_vars

\* The text contains the part
Contains(text, part) ==
    \E i \in 1..(Len(text) - Len(part) + 1) :
        SubSeq(text, i, i + Len(part) - 1) = part

\* All of the list but its last element
Front(seq) == SubSeq(seq, 1, Len(seq) - 1)

\* C15: when the endpoint answers with a non-success status, no snapshot has been
\* applied, the empty assistant placeholder (the last visible message) is
\* replaced by an error message that contains the status code and the server's
\* error text, the streaming flag is off again, and no conversation is added.
C15_HttpError ==
    [][ \A e \in 1..MaxSubmits : \A err \in HttpErrors :
            fetchHttpError(e, err[1], err[2])
                => /\ exchanges[e].acc = ""
                   /\ messages # <<>>
                   /\ LastOf(messages) = streamingPlaceholder
                   /\ Len(messages') = Len(messages)
                   /\ Front(messages') = Front(messages)
                   /\ LastOf(messages').sender = "llm"
                   /\ Contains(LastOf(messages').text, DecimalString(err[1]))
                   /\ Contains(LastOf(messages').text, err[2])
                   /\ ~isStreaming'
                   /\ conversations' = conversations
      ]_vars

\* error.message of the failures an exchange can raise
ErrorTexts ==
    {NetworkErrorText} \cup {httpErrorText(err[1], err[2]) : err \in HttpErrors}

\* C16: on a failure raised during an exchange: if the exchange's placeholder is
\* still empty (no snapshot yet), it is the last visible message and is replaced
\* by the error message, the count unchanged; if it holds partial content, the
\* content stays and the error message is appended; nothing but that empty
\* placeholder is overwritten.
C16_ErrorPlacement ==
    [][ \A e \in 1..MaxSubmits : \A msg \in ErrorTexts :
            ((Awaiting(e, "fetch") \/ Awaiting(e, "read")) /\ catch(e, msg))
                => IF exchanges[e].acc = ""
                   THEN /\ messages # <<>>
                        /\ LastOf(messages) = streamingPlaceholder
                        /\ messages' = Append(Front(messages), errorMessage(msg))
                   ELSE /\ messages # <<>>
                        /\ LastOf(messages).text = exchanges[e].acc
                        /\ messages' = Append(messages, errorMessage(msg))
      ]_vars

\* The exchanges whose request or read loop has not finished
Running == {e \in 1..Len(exchanges) : exchanges[e].pc \in {"fetch", "read"}}

\* C17: at most one exchange is running at any time: no submission is accepted
\* while the read loop of an earlier exchange has not finished.
C17_OneExchange ==
    Cardinality(Running) <= 1

\* C18: every accepted submission is followed by a state in which the controller
\* is Idle again (streaming flag off, submit enabled), on the success path and on
\* every failure path, when every request is answered or fails and every stream
\* ends or fails.
C18_BackToIdle ==
    isStreaming ~> ~isStreaming

\* Idle again after an exchange that ended
C18_Witness ==
    /\ ~isStreaming
    /\ \E e \in 1..Len(exchanges) : exchanges[e].pc = "ended"
    /\ \A e \in 1..Len(exchanges) : exchanges[e].pc = "ended"

\* The deltas of the well-formed data frames a chunk completes, in order, up to
\* the termination sentinel: those of its whole data lines and, for the rest of
\* a cut line, the delta of the frame that is now complete
RECURSIVE FramesReceived(_, _)
FramesReceived(lines, partial) ==
    IF lines = <<>> THEN <<>>
    ELSE LET line == Head(lines)
             rest == FramesReceived(Tail(lines), partial)
         IN IF line.kind = "done" /\ line.prefix THEN <<>>
            ELSE IF line.kind = "json" /\ line.prefix THEN <<line.delta>> \o rest
            ELSE IF line.kind = "tail" THEN <<partial>> \o rest
            ELSE rest

\* The running totals of the deltas, from the total so far
RECURSIVE RunningTotals(_, _)
RunningTotals(total, deltas) ==
    IF deltas = <<>> THEN <<>>
    ELSE <<total \o Head(deltas)>> \o RunningTotals(total \o Head(deltas), Tail(deltas))

\* C19: the snapshots produced while a chunk is read are the running totals,
\* continued from the total before the chunk, of the deltas of the well-formed
\* data frames received (a frame that arrives cut in two reads included); a line
\* that does not parse adds nothing and does not stop the lines after it.
C19_SnapshotsAreTotals ==
    [][ \A e \in 1..MaxSubmits : \A chunk \in FrameChunks :
            readChunk(e, chunk)
                => LET st == AfterChunk(e, chunk, now')
                   IN /\ st.snapshots =
                           RunningTotals(exchanges[e].acc,
                               FramesReceived(chunk, exchanges[e].partial))
                      /\ exchanges'[e].acc =
                           IF st.snapshots = <<>> THEN exchanges[e].acc
                           ELSE LastOf(st.snapshots)
      ]_vars

\* The content of the new user turn, with the text as typed ...
ContentAsTyped(in) ==
    IF Truthy(in[2]) /\ Trim(in[1]) # ""
    THEN PartsContent(<<TextPart(in[1]), ImagePart(selectedImageOf(in[2]))>>)
    ELSE IF Truthy(in[2])
    THEN PartsContent(<<ImagePart(selectedImageOf(in[2]))>>)
    ELSE PlainContent(in[1])

\* ... and with the text without the white space around it
ContentTrimmed(in) ==
    IF Truthy(in[2]) /\ Trim(in[1]) # ""
    THEN PartsContent(<<TextPart(Trim(in[1])), ImagePart(selectedImageOf(in[2]))>>)
    ELSE IF Truthy(in[2])
    THEN PartsContent(<<ImagePart(selectedImageOf(in[2]))>>)
    ELSE PlainContent(Trim(in[1]))

\* C20 as stated: the content of the new user turn of the request is the plain
\* text when only text is present, a list of a text part and an image part when
\* both are present, and a list of one image part when only an image is present
\* (text empty or white space only); the text is the submitted text.
C20_ContentAsTyped ==
    [][ \A in \in AllInputs :
            handleSubmit(in[1], in[2])
                => LastOf(exchanges').content = ContentAsTyped(in)
      ]_vars

\* C20 amended: the same three shapes, the text being the submitted text without
\* its leading and trailing white space.
C20_ContentTrimmed ==
    [][ \A in \in AllInputs :
            handleSubmit(in[1], in[2])
                => LastOf(exchanges').content = ContentTrimmed(in)
      ]_vars

\* A request in flight whose content is the plain text "Hi" while the message
\* the user submitted reads " Hi "
C20_Witness ==
    \E e \in 1..Len(exchanges) :
        /\ exchanges[e].pc = "fetch"
        /\ exchanges[e].content = PlainContent("Hi")
        /\ exchanges[e].newMessages # <<>>
        /\ LastOf(exchanges[e].newMessages).text = " Hi "

\* The lines of a chunk up to and including its "data: [DONE]" line
RECURSIVE UpToDone(_)
UpToDone(lines) ==
    IF lines = <<>> THEN <<>>
    ELSE IF Head(lines).prefix /\ Head(lines).kind = "done" THEN <<Head(lines)>>
    ELSE <<Head(lines)>> \o UpToDone(Tail(lines))

\* C21: once "data: [DONE]" has been received the exchange is over: the streaming
\* flag is off, the lines after it in the same chunk change neither the visible
\* list nor a stored conversation, and neither does any later chunk of the same
\* response.
C21_NothingAfterDone ==
    [][ \A e \in 1..MaxSubmits : \A chunk \in FrameChunks :
            readChunk(e, chunk)
                => /\ DoneSeen(chunk) =>
                        /\ ~isStreaming'
                        /\ messages' = AfterChunk(e, UpToDone(chunk), now').messages
                        /\ conversations' =
                               AfterChunk(e, UpToDone(chunk), now').conversations
                   /\ exchanges[e].done =>
                        /\ messages' = messages
                        /\ conversations' = conversations
      ]_vars

\* The lines of a chunk had the cut line arrived whole, in the chunk that
\* completes it: the first piece dropped, the last piece replaced by the line
RECURSIVE Rejoined(_, _)
Rejoined(lines, partial) ==
    IF lines = <<>> THEN <<>>
    ELSE LET line == Head(lines)
             rest == Rejoined(Tail(lines), partial)
         IN IF line.kind = "head" THEN rest
            ELSE IF line.kind = "tail" THEN <<DataLine(partial)>> \o rest
            ELSE <<line>> \o rest

\* C22: the snapshots do not depend on how the response is divided into chunks:
\* after a read, the accumulated text and the visible list are those the same
\* lines give when the line cut by the chunk boundary arrives in one piece.
C22_ChunkingInvisible ==
    [][ \A e \in 1..MaxSubmits : \A chunk \in FrameChunks :
            readChunk(e, chunk)
                => LET whole == AfterChunk(e, Rejoined(chunk, exchanges[e].partial),
                                           now')
                   IN /\ exchanges'[e].acc = whole.acc
                      /\ messages' = whole.messages
      ]_vars

\* The list is ordered most recently created first
NewestFirst(convs) ==
    \A i \in 1..Len(convs) : \A j \in 1..Len(convs) :
        i < j => convs[i].createdAt >= convs[j].createdAt

\* C23: createConversation adds exactly one conversation, titled "New
\* Conversation" and without messages, at the front of the list, leaves the
\* conversations that existed unchanged and in their order, makes the new one
\* active and empties the visible list; the list is ordered most recently
\* created first after every step.
C23_CreateAtFront ==
    [][ /\ createNewConversation
            => /\ Len(conversations') = Len(conversations) + 1
               /\ Fresh(conversations'[1])
               /\ Tail(conversations') = conversations
               /\ currentConversationId' = conversations'[1].id
               /\ messages' = <<>>
        /\ NewestFirst(conversations')
      ]_vars

\* A new chat was started after a conversation that holds messages: the new,
\* empty conversation is first and active, the older one follows it
C23_Witness ==
    /\ Len(conversations) = 2
    /\ Fresh(conversations[1])
    /\ currentConversationId = conversations[1].id
    /\ messages = <<>>
    /\ conversations[2].messages # <<>>
    /\ conversations[1].createdAt > conversations[2].createdAt

\* C24: no two conversations of the list share an id, also when two are
\* created at the same clock value.
C24_UniqueIds ==
    \A i \in 1..Len(conversations) : \A j \in 1..Len(conversations) :
        conversations[i].id = conversations[j].id => i = j

\* C25: selectConversation with an id that matches no conversation changes
\* nothing; with a matching id it makes that id the active one and replaces the
\* visible list by the stored list of that conversation, and leaves the
\* conversation list unchanged.
C25_SelectEffect ==
    [][ \A id \in SelectIds :
            selectConversation(id)
                => /\ conversations' = conversations
                   /\ id \notin ConversationIds
                        => /\ currentConversationId' = currentConversationId
                           /\ messages' = messages
                           /\ isStreaming' = isStreaming
                           /\ lsConversations' = lsConversations
                           /\ lsCurrentId' = lsCurrentId
                   /\ id \in ConversationIds
                        => /\ currentConversationId' = id
                           /\ messages' = conversations[
                                  FindConversation(conversations, id)].messages
      ]_vars

\* A conversation that holds messages is the active one again after a new chat
\* had been started, and the visible list is its stored list
C25_Witness ==
    /\ Len(conversations) = 2
    /\ Fresh(conversations[1])
    /\ currentConversationId = conversations[2].id
    /\ conversations[2].id # conversations[1].id
    /\ messages = conversations[2].messages
    /\ messages # <<>>
    /\ ~isStreaming

\* What updateCurrentConversation, called with the active id cid of its render,
\* may change in a step
UpdateFrame(cid) ==
    /\ Len(conversations') = Len(conversations)
    /\ \A i \in 1..Len(conversations) :
         /\ conversations'[i].id = conversations[i].id
         /\ conversations[i].id # cid => conversations'[i] = conversations[i]
    /\ currentConversationId' = currentConversationId
    /\ (~Truthy(cid) \/ cid \notin ConversationIds) => conversations' = conversations

\* C26: updateConversation changes only the conversation whose id matches: the
\* other conversations, the order and the length of the list and the active id
\* are unchanged, and when no conversation matches the id or no id is active
\* the list is unchanged and no conversation is created.
C26_UpdateFrame ==
    [][ /\ \A input \in ChatInputs :
             handleSubmit(input[1], input[2]) /\ Truthy(currentConversationId)
                 => UpdateFrame(currentConversationId)
        /\ \A e \in 1..MaxSubmits :
             /\ deferredUpdate(e) => UpdateFrame(exchanges[e].cid)
             /\ \A chunk \in Chunks :
                  readChunk(e, chunk) => UpdateFrame(exchanges[e].cid)
      ]_vars

\* A snapshot was stored in the conversation of its exchange while a newer,
\* still empty conversation is the active one
C26_Witness ==
    /\ Len(conversations) = 2
    /\ Fresh(conversations[1])
    /\ currentConversationId = conversations[1].id
    /\ conversations[2].id # conversations[1].id
    /\ conversations[2].messages # <<>>
    /\ LastOf(conversations[2].messages).text = "a"
    /\ isStreaming

\* What a step of an exchange may change when the active conversation is no
\* longer the one the exchange was submitted in: the visible list, which shows
\* another conversation, stays as it is, the other conversations stay as they
\* are, and the exchange's conversation keeps its messages but for the last one
Contained(ex) ==
    currentConversationId # OwnConversation(ex)
        => /\ messages' = messages
           /\ Len(conversations') = Len(conversations)
           /\ \A i \in 1..Len(conversations) :
                IF conversations[i].id = OwnConversation(ex)
                THEN \/ conversations'[i].messages = conversations[i].messages
                     \/ /\ conversations[i].messages # <<>>
                        /\ conversations'[i].messages # <<>>
                        /\ Front(conversations'[i].messages)
                               = Front(conversations[i].messages)
                ELSE conversations'[i] = conversations[i]

\* C27: the effects of an exchange in flight stay in the conversation it was
\* submitted in: after the user selected another conversation, started a new
\* chat or deleted a conversation, the snapshots and the error message of the
\* exchange overwrite no message of another conversation and store the message
\* list of no other conversation.
C27_ExchangeContained ==
    [][ \A e \in 1..MaxSubmits :
            /\ \A chunk \in Chunks :
                 readChunk(e, chunk) => Contained(exchanges[e])
            /\ \A msg \in ErrorTexts :
                 ((Awaiting(e, "fetch") \/ Awaiting(e, "read")) /\ catch(e, msg))
                     => Contained(exchanges[e])
      ]_vars

\* The controller is Idle after an exchange that finished, and the conversation
\* that is active exists
IdleAfterExchange ==
    /\ ~isStreaming
    /\ Running = {}
    /\ \E e \in 1..Len(exchanges) : exchanges[e].pc = "ended"
    /\ ~CreationPending
    /\ Truthy(currentConversationId)
    /\ currentConversationId \in ConversationIds

\* C28: whenever the controller is Idle after an exchange has finished, normally
\* or with an error, and a conversation is active, the stored list of the active
\* conversation equals the visible list: an error message shown to the user is
\* stored in the conversation.
C28_IdleStoredIsVisible ==
    IdleAfterExchange
        => conversations[FindConversation(conversations, currentConversationId)].messages
               = messages

\* C29: in every state, every stored conversation with a non-empty message list
\* has a user message as its first message, and its title is the one derived
\* from that user message's text, never from an assistant or error message.
C29_UserMessageFirst ==
    \A i \in 1..Len(conversations) :
        conversations[i].messages # <<>>
            => /\ conversations[i].messages[1].sender = "user"
               /\ conversations[i].title
                      = ExpectedTitle(conversations[i].messages[1].text)

\* C30: whenever the controller is Idle and no conversation is active, the
\* visible list is empty, also after the active conversation was deleted while
\* an exchange was in flight.
C30_NoOrphanMessages ==
    (~isStreaming /\ ~Truthy(currentConversationId)) => messages = <<>>

====
